---- MODULE Spec2Model ----
(***************************************************************************)
(* Model of bootcamp_utils/viz.py: the image display helpers imshow,       *)
(* im_merge, rgb_to_rgba32 and rgb_frac_to_hex.                            *)
(*                                                                         *)
(* A call is modelled as a two-step machine: the initial state holds the   *)
(* function name and its arguments (pc = "call"), and the function's       *)
(* action runs the whole body and leaves pc = "returned" with the return   *)
(* value in ret, or pc = "raised" when the body raises.  imshow runs in     *)
(* three steps (normalize, get the colour mapper, display), with its local *)
(* variables kept in frame between them.                                   *)
(*                                                                         *)
(* Numbers are exact rationals [n |-> numerator, d |-> denominator] in     *)
(* lowest terms with d > 0.  The three IEEE specials a float division can  *)
(* produce are kept with d = 0: NaN = 0/0, +inf = 1/0, -inf = -1/0.        *)
(***************************************************************************)
EXTENDS Integers, Sequences, FiniteSets, TLC

VARIABLES fn, arg, pc, frame, ret, mapper, platform, browser

vars == <<fn, arg, pc, frame, ret, mapper, platform, browser>>

\* Python's None, for optional arguments.
None == [none |-> TRUE]

\* Value of ret while no value has been returned.
NoValue == [novalue |-> TRUE]

\* State of a caller's colour mapper when no mapper object is involved.
NoMapper == [low |-> None, high |-> None]

\* State of the browser when no plot with a click display is on screen.
NoBrowser == [div_text |-> <<>>, cb_obj |-> None, taps |-> 0, moves |-> 0]

\* What the build decides and the source does not: the byte order of the
\* machine (ndarray.view reinterprets memory in native order) and the byte a
\* NaN becomes when a float array is cast to uint8 (undefined in C, so any
\* byte; the model tries both ends and the middle of the range).
Platforms == [little_endian : BOOLEAN]

NanBytes == {0, 128, 255}

DefaultPlatform == [little_endian |-> TRUE]

(***************************************************************************)
(* Rational arithmetic (float semantics on the values the model uses).     *)
(***************************************************************************)
Abs(x) == IF x < 0 THEN -x ELSE x

Sign(x) == IF x < 0 THEN -1 ELSE IF x > 0 THEN 1 ELSE 0

RECURSIVE GCD(_, _)
GCD(a, b) == IF b = 0 THEN a ELSE GCD(b, a % b)

\* n/d in lowest terms; d = 0 gives NaN, +inf or -inf as IEEE division does.
Q(n, d) ==
    IF d = 0 THEN [n |-> Sign(n), d |-> 0]
    ELSE LET g == GCD(Abs(n), Abs(d))
             s == IF d < 0 THEN -1 ELSE 1
         IN  [n |-> (s * n) \div g, d |-> (s * d) \div g]

Zero == Q(0, 1)
One == Q(1, 1)
NaN == Q(0, 0)

IsNaN(a) == a.d = 0 /\ a.n = 0

\* The common factor of two denominators (1 when both are 0).
DenGCD(a, b) == IF a.d = 0 /\ b.d = 0 THEN 1 ELSE GCD(a.d, b.d)

\* Comparisons; every comparison with NaN is false, as in IEEE arithmetic.
\* Common factors are cancelled before multiplying to keep the products small.
Lt(a, b) ==
    /\ ~IsNaN(a)
    /\ ~IsNaN(b)
    /\ a.n * (b.d \div DenGCD(a, b)) < b.n * (a.d \div DenGCD(a, b))
Gt(a, b) == Lt(b, a)
Le(a, b) ==
    /\ ~IsNaN(a)
    /\ ~IsNaN(b)
    /\ a.n * (b.d \div DenGCD(a, b)) <= b.n * (a.d \div DenGCD(a, b))

\* Sum, difference and product of finite numbers.
FAdd(a, b) ==
    LET g == GCD(a.d, b.d)
    IN  Q(a.n * (b.d \div g) + b.n * (a.d \div g), (a.d \div g) * b.d)
FSub(a, b) == FAdd(a, [n |-> -b.n, d |-> b.d])
FMul(a, b) == Q(a.n * b.n, a.d * b.d)
\* Float division of finite operands; x/0 is NaN or an infinity (numpy warns,
\* it does not raise).
FDiv(a, b) ==
    IF b.n = 0 THEN Q(a.n, 0)
    ELSE LET g1 == GCD(Abs(a.n), Abs(b.n))
             g2 == GCD(a.d, b.d)
         IN  Q((a.n \div g1) * (b.d \div g2), (a.d \div g2) * (b.n \div g1))

\* Python's int(): truncation toward zero.
PyInt(a) == IF a.n >= 0 THEN a.n \div a.d ELSE -((-a.n) \div a.d)

\* np.rint: round to nearest, ties to even.
Rint(a) ==
    LET fl == a.n \div a.d
        r2 == 2 * (a.n - fl * a.d)
    IN  IF r2 < a.d THEN fl
        ELSE IF r2 > a.d THEN fl + 1
        ELSE IF fl % 2 = 0 THEN fl ELSE fl + 1

(***************************************************************************)
(* rgb_frac_to_hex                                                         *)
(***************************************************************************)
HexDigits == <<"0", "1", "2", "3", "4", "5", "6", "7",
               "8", "9", "a", "b", "c", "d", "e", "f">>

\* Python's format(v, "x") for v >= 0.
RECURSIVE FormatX(_)
FormatX(v) ==
    IF v < 16 THEN HexDigits[v + 1]
    ELSE FormatX(v \div 16) \o HexDigits[(v % 16) + 1]

\* Python's "{:02x}": lowercase hex, zero-padded to at least two characters.
Format02x(v) == IF v < 16 THEN "0" \o FormatX(v) ELSE FormatX(v)

\* Mutation: the component is rounded to nearest instead of truncated.
HexComponentRounded(x) == Rint(FMul(x, Q(255, 1)))

\* The int() argument of one component of the format call.
HexComponent(x) == PyInt(FMul(x, Q(255, 1)))

\* (np.array(rgb_frac) < 0).any() or (np.array(rgb_frac) > 1).any()
AnyOutsideUnit(vals) == \E i \in DOMAIN vals : Lt(vals[i], Zero) \/ Gt(vals[i], One)

rgb_frac_to_hex(rgb_frac) ==
    IF Len(rgb_frac) # 3
      THEN [raised |-> TRUE, value |-> NoValue]
    ELSE IF AnyOutsideUnit(rgb_frac)
      THEN [raised |-> TRUE, value |-> NoValue]
    ELSE [raised |-> FALSE,
          value  |-> "#" \o Format02x(HexComponent(rgb_frac[1]))
                         \o Format02x(HexComponent(rgb_frac[2]))
                         \o Format02x(HexComponent(rgb_frac[3]))]

\* Longest rgb_frac argument tried.
MaxLen == 4

\* Component values tried: the docstring's examples, both ends of the unit
\* interval, a midpoint, and one value on each side outside the interval.
HexVals == {Q(-1, 100), Q(0, 1), Q(23, 100), Q(1, 2), Q(65, 100), Q(1, 1),
            Q(101, 100)}

RECURSIVE SeqsOfLen(_, _)
SeqsOfLen(S, k) ==
    IF k = 0 THEN {<<>>}
    ELSE {Append(s, x) : s \in SeqsOfLen(S, k - 1), x \in S}

SeqsUpTo(S, k) == UNION {SeqsOfLen(S, j) : j \in 0..k}

InitHex ==
    /\ fn = "rgb_frac_to_hex"
    /\ arg \in {[rgb_frac |-> s] : s \in SeqsUpTo(HexVals, MaxLen)}
    /\ pc = "call"
    /\ frame = NoValue
    /\ ret = NoValue
    /\ mapper = NoMapper
    /\ platform = DefaultPlatform
    /\ browser = NoBrowser

CallRgbFracToHex ==
    /\ fn = "rgb_frac_to_hex"
    /\ pc = "call"
    /\ LET r == rgb_frac_to_hex(arg.rgb_frac)
       IN  /\ pc' = IF r.raised THEN "raised" ELSE "returned"
           /\ ret' = r.value
    /\ UNCHANGED <<fn, arg, frame, mapper, platform, browser>>

NextHex == CallRgbFracToHex

SpecHex == InitHex /\ [][NextHex]_vars

\* Lookup of the two hex digits of a byte, high digit first.
TwoHexDigits(v) == HexDigits[(v \div 16) + 1] \o HexDigits[(v % 16) + 1]

\* The integer part of 255 * x for 0 <= x <= 1.
IntPart255(x) == CHOOSE k \in 0..255 : k * x.d <= 255 * x.n /\ 255 * x.n < (k + 1) * x.d

\* C9: rgb_frac_to_hex raises exactly when the input does not have length 3
\* or has a component below 0 or above 1; otherwise it returns '#' followed
\* by the two-digit lowercase hex of the integer part of 255 times the red,
\* green and blue component, in that order; (0.65, 0.23, 1.0) gives
\* '#a53aff' and (1.0, 1.0, 1.0) gives '#ffffff'.
C9_HexContract ==
    (fn = "rgb_frac_to_hex" /\ pc # "call") =>
      LET v   == arg.rgb_frac
          bad == \/ Len(v) # 3
                 \/ \E i \in 1..Len(v) : v[i].n < 0 \/ v[i].n > v[i].d
      IN  /\ (pc = "raised") <=> bad
          /\ (pc = "returned") <=> ~bad
          /\ ~bad => /\ Len(ret) = 7
                     /\ ret = "#" \o TwoHexDigits(IntPart255(v[1]))
                                  \o TwoHexDigits(IntPart255(v[2]))
                                  \o TwoHexDigits(IntPart255(v[3]))
          /\ v = <<Q(65, 100), Q(23, 100), Q(1, 1)>> => ret = "#a53aff"
          /\ v = <<Q(1, 1), Q(1, 1), Q(1, 1)>> => ret = "#ffffff"

\* A call on the docstring's first example has returned.
C9_Witness ==
    /\ fn = "rgb_frac_to_hex"
    /\ pc = "returned"
    /\ arg.rgb_frac = <<Q(65, 100), Q(23, 100), Q(1, 1)>>
    /\ ret = "#a53aff"

(***************************************************************************)
(* Arrays.  An array is [shape |-> <<...>>, px |-> nested sequences]: a    *)
(* 2D array of shape <<n, m>> has px[i][j] a number, a 3D array of shape   *)
(* <<n, m, c>> has px[i][j] a sequence of c numbers.                       *)
(***************************************************************************)
Ndim(im) == Len(im.shape)

\* The numbers of an array, whatever its shape.
Values(im) ==
    IF Ndim(im) = 1 THEN {im.px[i] : i \in 1..im.shape[1]}
    ELSE IF Ndim(im) = 2
      THEN {im.px[i][j] : i \in 1..im.shape[1], j \in 1..im.shape[2]}
    ELSE IF Ndim(im) = 3
      THEN {im.px[i][j][k] : i \in 1..im.shape[1], j \in 1..im.shape[2],
                             k \in 1..im.shape[3]}
    ELSE {im.px[i][j][k][l] : i \in 1..im.shape[1], j \in 1..im.shape[2],
                              k \in 1..im.shape[3], l \in 1..im.shape[4]}

\* Sequence reversal.
Reverse(s) == [i \in 1..Len(s) |-> s[Len(s) + 1 - i]]

(***************************************************************************)
(* rgb_to_rgba32                                                           *)
(***************************************************************************)
\* Mutation: the test for values above 1 is missing.
AnyOutsideUnitArrayNoUpper(im) == \E v \in Values(im) : Lt(v, Zero)

\* (im < 0).any() or (im > 1).any()
AnyOutsideUnitArray(im) == \E v \in Values(im) : Lt(v, Zero) \/ Gt(v, One)

Clip(v, lo, hi) == IF v < lo THEN lo ELSE IF v > hi THEN hi ELSE v

\* skimage.img_as_ubyte on one float in [-1, 1]: multiply by 255, round to
\* nearest (ties to even), clip to 0..255, cast.  The cast of a NaN is the
\* byte nan_byte.
img_as_ubyte(x, nan_byte) ==
    IF IsNaN(x) THEN nan_byte
    ELSE Clip(Rint(FMul(x, Q(255, 1))), 0, 255)

\* Mutation: the colour channels are stacked in reverse order.
StackBGRA(p8) == <<p8[3], p8[2], p8[1], 255>>

\* np.stack((*np.rollaxis(im_8, 2), 255 * np.ones(...)), axis=2) at one pixel.
StackRGBA(p8) == <<p8[1], p8[2], p8[3], 255>>

\* A byte read as the most significant byte of a two's complement int32.
SignedByte(b) == IF b >= 128 THEN b - 256 ELSE b

\* Four bytes of memory read as one np.int32 in native byte order.
ViewInt32(b, little_endian) ==
    IF little_endian
      THEN b[1] + 256 * b[2] + 65536 * b[3] + 16777216 * SignedByte(b[4])
      ELSE b[4] + 256 * b[3] + 65536 * b[2] + 16777216 * SignedByte(b[1])

\* Mutation: the rows are left in their order.
NoFlipud(rows) == rows

\* np.flipud
Flipud(rows) == Reverse(rows)

rgb_to_rgba32(im, flip, plat, nan_byte) ==
    IF Ndim(im) # 3 \/ im.shape[3] # 3
      THEN [raised |-> TRUE, value |-> NoValue]
    ELSE IF AnyOutsideUnitArray(im)
      THEN [raised |-> TRUE, value |-> NoValue]
    ELSE
      LET n == im.shape[1]
          m == im.shape[2]
          im_8 == [i \in 1..n |-> [j \in 1..m |->
                     [k \in 1..3 |-> img_as_ubyte(im.px[i][j][k], nan_byte)]]]
          im_rgba == [i \in 1..n |-> [j \in 1..m |-> StackRGBA(im_8[i][j])]]
          packed == [i \in 1..n |-> [j \in 1..m |->
                       ViewInt32(im_rgba[i][j], plat.little_endian)]]
      IN  [raised |-> FALSE,
           value  |-> [shape |-> <<n, m>>,
                       px    |-> IF flip THEN Flipud(packed) ELSE packed]]

\* Largest number of rows and of columns of an image passed to rgb_to_rgba32.
RgbaMaxRows == 2
RgbaMaxCols == 2

\* Valid pixels tried: the docstring colour of rgb_frac_to_hex and a pixel
\* whose red is a rounding tie (127.5).
RgbaPixels == {<<Q(65, 100), Q(23, 100), Q(1, 1)>>,
               <<Q(1, 2), Q(1, 4), Q(0, 1)>>}

\* Pixels tried in small images only: white, and two pixels with a value
\* outside the unit interval.
RgbaEdgePixels == {<<Q(1, 1), Q(1, 1), Q(1, 1)>>,
                   <<Q(-1, 100), Q(0, 1), Q(1, 1)>>,
                   <<Q(0, 1), Q(101, 100), Q(1, 1)>>}

\* All n-by-m arrays whose entries (numbers or pixels) are drawn from S.
Grids(n, m, S) == SeqsOfLen(SeqsOfLen(S, m), n)

\* (n, m, 3) images: every image of the valid pixels, and every image of one
\* or two pixels that may also be edge pixels.
RgbImages(max_rows, max_cols) ==
    UNION {{[shape |-> <<n, m, 3>>, px |-> g] :
              g \in Grids(n, m, IF n * m <= 2 THEN RgbaPixels \cup RgbaEdgePixels
                                             ELSE RgbaPixels)} :
             n \in 1..max_rows, m \in 1..max_cols}

\* Arrays that are not (n, m, 3): 1D, 2D, 3D with 1, 2 or 4 channels, 4D;
\* all values are inside the unit interval.
NonRgbImages ==
    LET h == Q(1, 2)
    IN  {[shape |-> <<3>>, px |-> <<h, h, h>>],
         [shape |-> <<1, 3>>, px |-> <<<<h, h, h>>>>],
         [shape |-> <<2, 2>>, px |-> <<<<h, One>>, <<Zero, h>>>>],
         [shape |-> <<1, 1, 1>>, px |-> <<<<<<h>>>>>>],
         [shape |-> <<1, 2, 2>>, px |-> <<<<<<h, h>>, <<Zero, One>>>>>>],
         [shape |-> <<1, 1, 4>>, px |-> <<<<<<h, h, h, One>>>>>>],
         [shape |-> <<1, 1, 1, 3>>, px |-> <<<<<<<<h, h, h>>>>>>>>]}

InitRgba ==
    /\ fn = "rgb_to_rgba32"
    /\ arg \in [im : RgbImages(RgbaMaxRows, RgbaMaxCols) \cup NonRgbImages,
                flip : BOOLEAN]
    /\ pc = "call"
    /\ frame = NoValue
    /\ ret = NoValue
    /\ mapper = NoMapper
    /\ platform \in Platforms
    /\ browser = NoBrowser

CallRgbToRgba32 ==
    /\ fn = "rgb_to_rgba32"
    /\ pc = "call"
    /\ \E nan_byte \in (IF NaN \in Values(arg.im) THEN NanBytes ELSE {0}) :
         LET r == rgb_to_rgba32(arg.im, arg.flip, platform, nan_byte)
         IN  /\ pc' = IF r.raised THEN "raised" ELSE "returned"
             /\ ret' = r.value
    /\ UNCHANGED <<fn, arg, frame, mapper, platform, browser>>

NextRgba == CallRgbToRgba32

SpecRgba == InitRgba /\ [][NextRgba]_vars

RgbaCalled == fn = "rgb_to_rgba32" /\ pc # "call"

\* C5: rgb_to_rgba32 raises for every array that is not 3-dimensional with a
\* last axis of length 3 and for every 3-channel array with a value below 0
\* or above 1; it does not raise for a 3-channel array with all values in
\* [0, 1].
C5_RgbaRaises ==
    RgbaCalled =>
      LET im     == arg.im
          is_rgb == Len(im.shape) = 3 /\ im.shape[3] = 3
          in_unit == \A i \in 1..im.shape[1], j \in 1..im.shape[2], k \in 1..3 :
                       LET v == im.px[i][j][k] IN 0 <= v.n /\ v.n <= v.d
      IN  /\ ~is_rgb => pc = "raised"
          /\ (is_rgb /\ ~in_unit) => pc = "raised"
          /\ (is_rgb /\ in_unit) => pc = "returned"

\* A 3-channel image with a value above 1 was rejected.
C5_Witness ==
    /\ RgbaCalled
    /\ pc = "raised"
    /\ arg.im.shape = <<1, 1, 3>>
    /\ arg.im.px[1][1][2] = Q(101, 100)

\* The four bytes of a packed element in memory order.
MemoryBytes(v, little_endian) ==
    LET b == [k \in 1..4 |->
                IF k = 1 THEN v % 256
                ELSE IF k = 2 THEN (v \div 256) % 256
                ELSE IF k = 3 THEN (v \div 65536) % 256
                ELSE (v \div 16777216) % 256]
    IN  IF little_endian THEN b ELSE Reverse(b)

\* The input row shown in row i of the output.
SourceRow(i) == IF arg.flip THEN arg.im.shape[1] + 1 - i ELSE i

\* C6: for a valid (n, m, 3) input the result has shape (n, m), and the four
\* 8-bit fields of each element are the pixel's red, green and blue within
\* one 8-bit step of 255 times the input value, and an alpha of 255.
C6_RgbaPacking ==
    (RgbaCalled /\ pc = "returned") =>
      LET n == arg.im.shape[1]
          m == arg.im.shape[2]
      IN  /\ ret.shape = <<n, m>>
          /\ Len(ret.px) = n
          /\ \A i \in 1..n :
               /\ Len(ret.px[i]) = m
               /\ \A j \in 1..m :
                    LET b == MemoryBytes(ret.px[i][j], platform.little_endian)
                        p == arg.im.px[SourceRow(i)][j]
                    IN  /\ b[4] = 255
                        /\ \A k \in 1..3 :
                             /\ b[k] \in 0..255
                             /\ Abs(b[k] * p[k].d - 255 * p[k].n) <= p[k].d

\* A 2 x 2 image with two different valid pixels in one row was packed.
C6_Witness ==
    /\ RgbaCalled
    /\ pc = "returned"
    /\ arg.im.shape = <<2, 2, 3>>
    /\ arg.im.px[1][1] = <<Q(65, 100), Q(23, 100), Q(1, 1)>>
    /\ arg.im.px[1][2] = <<Q(1, 2), Q(1, 4), Q(0, 1)>>

\* C7: every element of the array returned by rgb_to_rgba32 is an unsigned
\* 32-bit integer: no returned element is negative.
C7_Unsigned ==
    (RgbaCalled /\ pc = "returned") =>
      \A i \in 1..ret.shape[1], j \in 1..ret.shape[2] : ret.px[i][j] >= 0

\* C8: the result with flip=True is the result with flip=False with its rows
\* in reverse order, columns and pixel values unchanged; reversing the rows
\* twice gives back the unflipped result.
C8_FlipMirror ==
    (RgbaCalled /\ pc = "returned" /\ arg.flip) =>
      LET n == arg.im.shape[1]
          unflipped == rgb_to_rgba32(arg.im, FALSE, platform, 0).value
      IN  /\ ret.shape = unflipped.shape
          /\ \A i \in 1..n : ret.px[i] = unflipped.px[n + 1 - i]
          /\ Reverse(Reverse(unflipped.px)) = unflipped.px
          /\ Reverse(ret.px) = unflipped.px

\* A flipped call on an image whose two rows differ has returned.
C8_Witness ==
    /\ RgbaCalled
    /\ pc = "returned"
    /\ arg.flip
    /\ arg.im.shape[1] = 2
    /\ arg.im.px[1] # arg.im.px[2]
    /\ ret.px[1] # ret.px[2]

(***************************************************************************)
(* im_merge                                                                *)
(***************************************************************************)
\* ndarray.max() and ndarray.min() of an array of finite numbers.
ArrMax(im) == CHOOSE v \in Values(im) : \A w \in Values(im) : Le(w, v)
ArrMin(im) == CHOOSE v \in Values(im) : \A w \in Values(im) : Le(v, w)

\* (im - lo) / (hi - lo)
Rescale(im, lo, hi) ==
    [shape |-> im.shape,
     px    |-> [i \in 1..im.shape[1] |-> [j \in 1..im.shape[2] |->
                  FDiv(FSub(im.px[i][j], lo), FSub(hi, lo))]]]

\* (im > 0).astype(float)
PositiveMask(im) ==
    [shape |-> im.shape,
     px    |-> [i \in 1..im.shape[1] |-> [j \in 1..im.shape[2] |->
                  IF Gt(im.px[i][j], Zero) THEN One ELSE Zero]]]

\* np.zeros_like(im)
ZerosLike(im) ==
    [shape |-> im.shape,
     px    |-> [i \in 1..im.shape[1] |-> [j \in 1..im.shape[2] |-> Zero]]]

\* Mutation: the third channel's max is not checked.
MaxesTooSmallFirstTwo(im_0, im_1, im_2, b) ==
    \/ Lt(b.im_0_max, ArrMax(im_0))
    \/ Lt(b.im_1_max, ArrMax(im_1))

\* "Make sure maxes are ok", with the effective bounds b.
MaxesTooSmall(im_0, im_1, im_2, b) ==
    \/ Lt(b.im_0_max, ArrMax(im_0))
    \/ Lt(b.im_1_max, ArrMax(im_1))
    \/ (im_2 # None /\ Lt(b.im_2_max, ArrMax(im_2)))

\* "Make sure mins are ok", with the effective bounds b.
MinsTooLarge(im_0, im_1, im_2, b) ==
    \/ Gt(b.im_0_min, ArrMin(im_0))
    \/ Gt(b.im_1_min, ArrMin(im_1))
    \/ (im_2 # None /\ Gt(b.im_2_min, ArrMin(im_2)))

\* "Compute max intensities if needed", "Compute min intensities if needed".
EffectiveBounds(im_0, im_1, im_2, given) ==
    [im_0_max |-> IF given.im_0_max = None THEN ArrMax(im_0) ELSE given.im_0_max,
     im_1_max |-> IF given.im_1_max = None THEN ArrMax(im_1) ELSE given.im_1_max,
     im_2_max |-> IF im_2 # None /\ given.im_2_max = None
                    THEN ArrMax(im_2) ELSE given.im_2_max,
     im_0_min |-> IF given.im_0_min = None THEN ArrMin(im_0) ELSE given.im_0_min,
     im_1_min |-> IF given.im_1_min = None THEN ArrMin(im_1) ELSE given.im_1_min,
     im_2_min |-> IF im_2 # None /\ given.im_2_min = None
                    THEN ArrMin(im_2) ELSE given.im_2_min]

\* "Scale the images": the three if statements in order, each acting on the
\* local variables c = [im_0, im_1, im_2] left by the one before.  The else
\* branches of the second and third statement assign to im_0.
ScaleFirst(c, b) ==
    IF Gt(b.im_0_max, b.im_0_min)
      THEN [c EXCEPT !.im_0 = Rescale(c.im_0, b.im_0_min, b.im_0_max)]
      ELSE [c EXCEPT !.im_0 = PositiveMask(c.im_0)]

ScaleSecond(c, b) ==
    IF Gt(b.im_1_max, b.im_1_min)
      THEN [c EXCEPT !.im_1 = Rescale(c.im_1, b.im_1_min, b.im_1_max)]
      ELSE [c EXCEPT !.im_0 = PositiveMask(c.im_0)]

ScaleThird(c, b) ==
    IF c.im_2 = None
      THEN [c EXCEPT !.im_2 = ZerosLike(c.im_0)]
    ELSE IF Gt(b.im_2_max, b.im_2_min)
      THEN [c EXCEPT !.im_2 = Rescale(c.im_2, b.im_2_min, b.im_2_max)]
      ELSE [c EXCEPT !.im_0 = PositiveMask(c.im_0)]

ScaleImages(im_0, im_1, im_2, b) ==
    ScaleThird(ScaleSecond(ScaleFirst(
        [im_0 |-> im_0, im_1 |-> im_1, im_2 |-> im_2], b), b), b)

\* im_c + im_m + im_y: red = 0 + im_1 + im_2, green = im_0 + 0 + im_2,
\* blue = im_0 + im_1 + 0.
CmySum(c) ==
    [shape |-> <<c.im_0.shape[1], c.im_0.shape[2], 3>>,
     px |-> [i \in 1..c.im_0.shape[1] |-> [j \in 1..c.im_0.shape[2] |->
               <<FAdd(FAdd(Zero, c.im_1.px[i][j]), c.im_2.px[i][j]),
                 FAdd(FAdd(c.im_0.px[i][j], Zero), c.im_2.px[i][j]),
                 FAdd(FAdd(c.im_0.px[i][j], c.im_1.px[i][j]), Zero)>>]]]

\* Channel k of a 3D array, as a 2D array.
Channel(im, k) ==
    [shape |-> <<im.shape[1], im.shape[2]>>,
     px |-> [i \in 1..im.shape[1] |-> [j \in 1..im.shape[2] |-> im.px[i][j][k]]]]

\* for i in [0, 1, 2]: im_rgb[:, :, i] /= im_rgb[:, :, i].max()
DivideByChannelMax(im) ==
    [shape |-> im.shape,
     px |-> [i \in 1..im.shape[1] |-> [j \in 1..im.shape[2] |->
               [k \in 1..3 |-> FDiv(im.px[i][j][k], ArrMax(Channel(im, k)))]]]]

\* The else branch of "Convert images to RGB".
RgbAssign(c) ==
    [shape |-> <<c.im_0.shape[1], c.im_0.shape[2], 3>>,
     px |-> [i \in 1..c.im_0.shape[1] |-> [j \in 1..c.im_0.shape[2] |->
               <<c.im_0.px[i][j], c.im_1.px[i][j], c.im_2.px[i][j]>>]]]

\* given: the six bound arguments, each a number or None.
im_merge(im_0, im_1, im_2, given, cmy) ==
    LET b == EffectiveBounds(im_0, im_1, im_2, given)
    IN  IF MaxesTooSmall(im_0, im_1, im_2, b)
          THEN [raised |-> TRUE, value |-> NoValue]
        ELSE IF MinsTooLarge(im_0, im_1, im_2, b)
          THEN [raised |-> TRUE, value |-> NoValue]
        ELSE LET c == ScaleImages(im_0, im_1, im_2, b)
             IN  [raised |-> FALSE,
                  value  |-> IF cmy THEN DivideByChannelMax(CmySum(c))
                                    ELSE RgbAssign(c)]

\* Channels passed to im_merge have one row and up to MergeMaxCols columns.
MergeMaxCols == 2

\* Pixel values of the channels tried.
MergeVals == {Q(0, 1), Q(2, 1)}

\* Explicit bounds tried: a max below and a max above the largest pixel
\* value, a min above the smallest pixel value.
MergeMaxBounds == {None, Q(1, 1), Q(3, 1)}
MergeMinBounds == {None, Q(1, 1)}

MergeChannels(m) == {[shape |-> <<1, m>>, px |-> g] : g \in Grids(1, m, MergeVals)}

MergeBounds ==
    [im_0_max : MergeMaxBounds, im_1_max : MergeMaxBounds, im_2_max : MergeMaxBounds,
     im_0_min : MergeMinBounds, im_1_min : MergeMinBounds, im_2_min : MergeMinBounds]

MergeArgs(max_cols) ==
    UNION {[im_0 : MergeChannels(m), im_1 : MergeChannels(m),
            im_2 : MergeChannels(m) \cup {None},
            bounds : MergeBounds, cmy : BOOLEAN] : m \in 1..max_cols}

InitMerge ==
    /\ fn = "im_merge"
    /\ arg \in MergeArgs(MergeMaxCols)
    /\ pc = "call"
    /\ frame = NoValue
    /\ ret = NoValue
    /\ mapper = NoMapper
    /\ platform = DefaultPlatform
    /\ browser = NoBrowser

CallImMerge ==
    /\ fn = "im_merge"
    /\ pc = "call"
    /\ LET r == im_merge(arg.im_0, arg.im_1, arg.im_2, arg.bounds, arg.cmy)
       IN  /\ pc' = IF r.raised THEN "raised" ELSE "returned"
           /\ ret' = r.value
    /\ UNCHANGED <<fn, arg, frame, mapper, platform, browser>>

NextMerge == CallImMerge

SpecMerge == InitMerge /\ [][NextMerge]_vars

MergeCalled == fn = "im_merge" /\ pc # "call"

\* A number in the unit interval (so neither NaN nor an infinity).
InUnit(v) == v.d > 0 /\ 0 <= v.n /\ v.n <= v.d

\* C1: every element of an image returned by im_merge lies in [0, 1]:
\* none is below 0, above 1 or undefined.
C1_MergeInUnit ==
    (MergeCalled /\ pc = "returned") =>
      \A i \in 1..ret.shape[1], j \in 1..ret.shape[2], k \in 1..3 :
        InUnit(ret.px[i][j][k])

\* C2: a call with no third channel returns the same image as the call with
\* the same two channels, the same bounds for them, the same mode and a
\* zero-filled third channel (with its bounds left to their defaults).
C2_TwoChannelsAsZeroThird ==
    (MergeCalled /\ arg.im_2 = None) =>
      LET Z  == [shape |-> arg.im_0.shape,
                 px    |-> [i \in 1..arg.im_0.shape[1] |->
                              [j \in 1..arg.im_0.shape[2] |-> Q(0, 1)]]]
          b3 == [arg.bounds EXCEPT !.im_2_max = None, !.im_2_min = None]
          r3 == im_merge(arg.im_0, arg.im_1, Z, b3, arg.cmy)
      IN  /\ (pc = "raised") <=> r3.raised
          /\ ret = r3.value

\* The supplied channels and their explicit bounds, by channel number.
SuppliedChannels == IF arg.im_2 = None THEN {0, 1} ELSE {0, 1, 2}

ChannelArg(k) == IF k = 0 THEN arg.im_0 ELSE IF k = 1 THEN arg.im_1 ELSE arg.im_2

MaxArg(k) ==
    IF k = 0 THEN arg.bounds.im_0_max
    ELSE IF k = 1 THEN arg.bounds.im_1_max ELSE arg.bounds.im_2_max

MinArg(k) ==
    IF k = 0 THEN arg.bounds.im_0_min
    ELSE IF k = 1 THEN arg.bounds.im_1_min ELSE arg.bounds.im_2_min

\* Channel k has an explicit bound tighter than its data.
TightBound(k) ==
    LET ch == ChannelArg(k)
    IN  \/ /\ MaxArg(k) # None
           /\ \E i \in 1..ch.shape[1], j \in 1..ch.shape[2] : Lt(MaxArg(k), ch.px[i][j])
        \/ /\ MinArg(k) # None
           /\ \E i \in 1..ch.shape[1], j \in 1..ch.shape[2] : Gt(MinArg(k), ch.px[i][j])

\* C3: im_merge raises, and returns no image, whenever a supplied channel
\* has an explicit max below its actual maximum or an explicit min above its
\* actual minimum, whatever the other channels' bounds and the mode.
C3_TightBoundRaises ==
    (MergeCalled /\ \E k \in SuppliedChannels : TightBound(k)) =>
      (pc = "raised" /\ ret = NoValue)

\* Only the third channel's max is too small, the other bounds are explicit
\* and loose, and the call raised.
C3_Witness ==
    /\ MergeCalled
    /\ pc = "raised"
    /\ arg.im_2 # None
    /\ TightBound(2)
    /\ ~TightBound(0)
    /\ ~TightBound(1)
    /\ arg.bounds.im_0_max # None
    /\ arg.bounds.im_1_max # None

\* The effective bounds of the call in progress, and those of channel k.
CallBounds == EffectiveBounds(arg.im_0, arg.im_1, arg.im_2, arg.bounds)

EffectiveMax(k) ==
    IF k = 0 THEN CallBounds.im_0_max
    ELSE IF k = 1 THEN CallBounds.im_1_max ELSE CallBounds.im_2_max

EffectiveMin(k) ==
    IF k = 0 THEN CallBounds.im_0_min
    ELSE IF k = 1 THEN CallBounds.im_1_min ELSE CallBounds.im_2_min

\* What the claim has channel k become before merging: the mask of its
\* positive values when its effective max equals its effective min, its
\* linear rescaling otherwise, zeros for a third channel not supplied.
ScaledAsClaimed(k) ==
    IF k \notin SuppliedChannels THEN ZerosLike(arg.im_0)
    ELSE IF EffectiveMax(k) = EffectiveMin(k) THEN PositiveMask(ChannelArg(k))
    ELSE Rescale(ChannelArg(k), EffectiveMin(k), EffectiveMax(k))

\* C12: the image im_merge returns is the merge of the channels in which each
\* supplied channel with effective max = effective min is the 0.0/1.0 mask of
\* its own positive values and every other channel is its own rescaling; in
\* RGB mode component k of the output is therefore that mask or rescaling.
C12_ConstantChannelMask ==
    (MergeCalled /\ pc = "returned") =>
      LET c == [im_0 |-> ScaledAsClaimed(0), im_1 |-> ScaledAsClaimed(1),
                im_2 |-> ScaledAsClaimed(2)]
      IN  /\ ret = IF arg.cmy THEN DivideByChannelMax(CmySum(c)) ELSE RgbAssign(c)
          /\ ~arg.cmy => \A k \in SuppliedChannels :
                           Channel(ret, k + 1) = ScaledAsClaimed(k)

(***************************************************************************)
(* imshow.  The arguments that only configure the figure (frame size,      *)
(* ranges, labels, ticks, title, colorbar, click display) are not          *)
(* modelled; the image, the colour mapper and the intensity bounds are.    *)
(* An image carries its dtype: "bool", "uint8", "int" or "float".          *)
(***************************************************************************)
\* A Python str argument, and a bokeh LinearColorMapper object argument.
Str(s) == [str |-> s]
MapperObject == [obj |-> "LinearColorMapper"]

IsStr(x) == DOMAIN x = {"str"}

\* str.lower() on the strings the model passes.
Lower(s) == IF s = "RGB" THEN "rgb" ELSE IF s = "CMY" THEN "cmy" ELSE s

\* im[:, :, 0]
FirstChannel(im) ==
    [shape |-> <<im.shape[1], im.shape[2]>>,
     px    |-> [i \in 1..im.shape[1] |-> [j \in 1..im.shape[2] |-> im.px[i][j][1]]],
     dtype |-> im.dtype]

\* Mutation: every image with a value above 1 is taken to be above 8-bit.
Above8BitFrom1(im) == Gt(ArrMax(im), One)

\* im.max() > 255
Above8Bit(im) == Gt(ArrMax(im), Q(255, 1))

\* A nested sequence of the given depth with every number divided by mx.
RECURSIVE DivideNested(_, _, _)
DivideNested(x, depth, mx) ==
    IF depth = 0 THEN FDiv(x, mx)
    ELSE [k \in 1..Len(x) |-> DivideNested(x[k], depth - 1, mx)]

\* im.astype(float) / im.max()
DivideByMax(im) ==
    [im EXCEPT !.px = DivideNested(im.px, Ndim(im), ArrMax(im)), !.dtype = "float"]

\* Lines 101-114: flatten a single channel and check the channel count,
\* make a binary image uint8, convert an image above 8-bit to float.
imshow_normalize(im0) ==
    IF Ndim(im0) = 3 /\ im0.shape[3] # 1 /\ im0.shape[3] \notin {2, 3}
      THEN [raised |-> TRUE, value |-> NoValue]
    ELSE
      LET im1 == IF Ndim(im0) = 3 /\ im0.shape[3] = 1 THEN FirstChannel(im0) ELSE im0
          im2 == IF im1.dtype = "bool" THEN [im1 EXCEPT !.dtype = "uint8"] ELSE im1
          im3 == IF Above8Bit(im2) THEN DivideByMax(im2) ELSE im2
      IN  [raised |-> FALSE, value |-> im3]

\* *np.rollaxis(im, 2): the channels of a 3D image; the third is None when
\* the image has two channels (im_merge's default for im_2).
RollChannels(im) ==
    [im_0 |-> Channel(im, 1), im_1 |-> Channel(im, 2),
     im_2 |-> IF im.shape[3] = 3 THEN Channel(im, 3) ELSE None]

\* The six bound arguments imshow passes to im_merge.
ImshowBounds(min_intensity, max_intensity) ==
    [im_0_max |-> max_intensity, im_1_max |-> max_intensity, im_2_max |-> max_intensity,
     im_0_min |-> min_intensity, im_1_min |-> min_intensity, im_2_min |-> min_intensity]

\* Lines 130-154: the merge of a 3D image.  A colour mapper that is not a
\* str has no lower() and raises AttributeError.
imshow_merge(im, color_mapper, min_intensity, max_intensity) ==
    IF color_mapper # None /\ ~IsStr(color_mapper)
      THEN [raised |-> TRUE, value |-> NoValue]
    ELSE IF color_mapper = None \/ Lower(color_mapper.str) = "cmy"
      THEN LET c == RollChannels(im)
           IN  im_merge(c.im_0, c.im_1, c.im_2,
                        ImshowBounds(min_intensity, max_intensity), TRUE)
    ELSE IF Lower(color_mapper.str) = "rgb"
      THEN LET c == RollChannels(im)
           IN  im_merge(c.im_0, c.im_1, c.im_2,
                        ImshowBounds(min_intensity, max_intensity), FALSE)
    ELSE [raised |-> TRUE, value |-> NoValue]

\* Lines 116-156, "Get color mapper", on the normalized image im.
\* mapper_state is the state of the caller's colour mapper object.  The
\* result holds the local im (merged when the image is 3D), the low and high
\* of the colour mapper in use (None for a colour image) and the state of
\* the caller's object after the assignments.  For a 2D image a str colour
\* mapper raises: "rgb" and "cmy" at line 121, any other str at the
\* assignment to its attribute low.
imshow_color_mapper(im, color_mapper, min_intensity, max_intensity, mapper_state) ==
    IF Ndim(im) = 2 THEN
      IF color_mapper # None /\ IsStr(color_mapper)
        THEN [raised |-> TRUE, im |-> NoValue, used |-> NoValue, mapper |-> mapper_state]
      ELSE
        LET used == [low  |-> IF min_intensity = None THEN ArrMin(im) ELSE min_intensity,
                     high |-> IF max_intensity = None THEN ArrMax(im) ELSE max_intensity]
        IN  [raised |-> FALSE, im |-> im, used |-> used,
             mapper |-> IF color_mapper = None THEN mapper_state ELSE used]
    ELSE IF Ndim(im) = 3 THEN
      LET merged == imshow_merge(im, color_mapper, min_intensity, max_intensity)
      IN  [raised |-> merged.raised, im |-> merged.value, used |-> None,
           mapper |-> mapper_state]
    ELSE [raised |-> TRUE, im |-> NoValue, used |-> NoValue, mapper |-> mapper_state]

\* Lines 203-222, "Display the image", on the locals g left by the step
\* above: the glyph added to the figure, with its image data and colour
\* mapper.
imshow_glyph(g, flip, plat, nan_byte) ==
    IF Ndim(g.im) = 2
      THEN [raised |-> FALSE,
            value  |-> [glyph |-> "image",
                        image |-> IF flip THEN [g.im EXCEPT !.px = Reverse(g.im.px)]
                                          ELSE g.im,
                        color_mapper |-> g.used]]
    ELSE LET packed == rgb_to_rgba32(g.im, flip, plat, nan_byte)
         IN  IF packed.raised THEN [raised |-> TRUE, value |-> NoValue]
             ELSE [raised |-> FALSE,
                   value  |-> [glyph |-> "image_rgba", image |-> packed.value,
                               color_mapper |-> None]]

\* The image has a NaN that the conversion to 8-bit will cast.
CastsNaN(g) == Ndim(g.im) = 3 /\ NaN \in Values(g.im)

\* Images passed to imshow have one column and up to ImshowMaxRows rows.
ImshowMaxRows == 2

\* Pixel values of the intensity images tried, and the pixels of the
\* multi-channel images tried: values within and above the 8-bit range.
ImshowVals == {Q(0, 1), Q(128, 1), Q(256, 1)}
ImshowPixels(c) ==
    IF c = 1 THEN {<<Q(0, 1)>>, <<Q(128, 1)>>, <<Q(256, 1)>>}
    ELSE IF c = 2 THEN {<<Q(0, 1), Q(0, 1)>>, <<Q(0, 1), Q(128, 1)>>,
                        <<Q(256, 1), Q(128, 1)>>, <<Q(128, 1), Q(128, 1)>>}
    ELSE {<<Q(0, 1), Q(0, 1), Q(0, 1)>>, <<Q(128, 1), Q(0, 1), Q(128, 1)>>,
          <<Q(256, 1), Q(128, 1), Q(0, 1)>>, <<Q(128, 1), Q(128, 1), Q(128, 1)>>}

ImshowImages(max_rows) ==
    UNION {
      {[shape |-> <<n, 1>>, px |-> g, dtype |-> "int"] : g \in Grids(n, 1, ImshowVals)}
      \cup {[shape |-> <<n, 1>>, px |-> g, dtype |-> "bool"] : g \in Grids(n, 1, {Zero, One})}
      \cup UNION {{[shape |-> <<n, 1, c>>, px |-> g, dtype |-> "int"] :
                     g \in Grids(n, 1, ImshowPixels(c))} : c \in 1..3}
      : n \in 1..max_rows}
    \cup {[shape |-> <<1, 1, 3>>, px |-> <<<<<<One, Zero, One>>>>>>, dtype |-> "bool"],
          [shape |-> <<1, 1, 4>>, px |-> <<<<<<One, One, One, One>>>>>>, dtype |-> "int"],
          [shape |-> <<2>>, px |-> <<Zero, Q(256, 1)>>, dtype |-> "int"],
          [shape |-> <<1, 1, 1, 2>>, px |-> <<<<<<<<Zero, One>>>>>>>>, dtype |-> "int"]}

ImshowColorMappers ==
    {None, Str("cmy"), Str("rgb"), Str("RGB"), Str("viridis"), MapperObject}

\* Explicit bounds tried: a min at and a min above the smallest value, a max
\* between the largest normalized value (1) and the largest 8-bit value, and
\* the largest 8-bit value.
ImshowMinIntensities == {None, Q(0, 1), Q(1, 1)}
ImshowMaxIntensities == {None, Q(2, 1), Q(255, 1)}

\* States of a mapper object the caller made before the call.
CallerMappers == {[low |-> None, high |-> None], [low |-> Q(0, 1), high |-> Q(255, 1)]}

InitImshow ==
    /\ fn = "imshow"
    /\ arg \in [im : ImshowImages(ImshowMaxRows), color_mapper : ImshowColorMappers,
                min_intensity : ImshowMinIntensities,
                max_intensity : ImshowMaxIntensities, flip : BOOLEAN]
    /\ pc = "call"
    /\ frame = NoValue
    /\ ret = NoValue
    /\ mapper \in IF arg.color_mapper = MapperObject THEN CallerMappers ELSE {NoMapper}
    /\ platform \in Platforms
    /\ browser = NoBrowser

ImshowNormalize ==
    /\ fn = "imshow"
    /\ pc = "call"
    /\ LET r == imshow_normalize(arg.im)
       IN  /\ pc' = IF r.raised THEN "raised" ELSE "normalized"
           /\ frame' = IF r.raised THEN NoValue ELSE [im |-> r.value]
    /\ UNCHANGED <<fn, arg, ret, mapper, platform, browser>>

ImshowColorMapper ==
    /\ fn = "imshow"
    /\ pc = "normalized"
    /\ LET g == imshow_color_mapper(frame.im, arg.color_mapper, arg.min_intensity,
                                    arg.max_intensity, mapper)
       IN  /\ pc' = IF g.raised THEN "raised" ELSE "mapped"
           /\ frame' = IF g.raised THEN frame ELSE [im |-> g.im, used |-> g.used]
           /\ mapper' = g.mapper
    /\ UNCHANGED <<fn, arg, ret, platform, browser>>

ImshowDisplay ==
    /\ fn = "imshow"
    /\ pc = "mapped"
    /\ \E nan_byte \in (IF CastsNaN(frame) THEN NanBytes ELSE {0}) :
         LET r == imshow_glyph(frame, arg.flip, platform, nan_byte)
         IN  /\ pc' = IF r.raised THEN "raised" ELSE "returned"
             /\ ret' = r.value
    /\ UNCHANGED <<fn, arg, frame, mapper, platform, browser>>

NextImshow == ImshowNormalize \/ ImshowColorMapper \/ ImshowDisplay

SpecImshow == InitImshow /\ [][NextImshow]_vars

ImshowCalled == fn = "imshow"

\* The call is on a 2- or 3-channel image.
MultiChannel == Len(arg.im.shape) = 3 /\ arg.im.shape[3] \in {2, 3}

\* An explicit intensity bound is tighter than the data of some channel of
\* the supplied image.
TightIntensity ==
    \/ /\ arg.max_intensity # None
       /\ \E i \in 1..arg.im.shape[1], j \in 1..arg.im.shape[2], k \in 1..arg.im.shape[3] :
            Lt(arg.max_intensity, arg.im.px[i][j][k])
    \/ /\ arg.min_intensity # None
       /\ \E i \in 1..arg.im.shape[1], j \in 1..arg.im.shape[2], k \in 1..arg.im.shape[3] :
            Gt(arg.min_intensity, arg.im.px[i][j][k])

\* C4: imshow on a multi-channel image with an explicit max_intensity below
\* the maximum of some channel of the supplied image, or an explicit
\* min_intensity above the minimum of some channel, raises instead of
\* returning a plot, also when the image's maximum exceeds 255.
C4_TightIntensityRaises ==
    (ImshowCalled /\ MultiChannel /\ TightIntensity) => pc # "returned"

\* The elements of a nested sequence of the given depth, in index order.
RECURSIVE Flatten(_, _)
Flatten(x, depth) ==
    IF depth = 0 THEN <<x>>
    ELSE IF Len(x) = 0 THEN <<>>
    ELSE Flatten(Head(x), depth - 1) \o Flatten(Tail(x), depth)

\* C10: the normalization step leaves an image whose maximum is at most 255
\* unchanged, apart from the coercion of a boolean image to 8-bit, and
\* replaces an image whose maximum is above 255 by the image divided
\* elementwise by that maximum, the single maximum over all channels, so
\* that the normalized maximum is exactly 1.
C10_Normalization ==
    (ImshowCalled /\ pc = "normalized") =>
      LET src == Flatten(arg.im.px, Len(arg.im.shape))
          out == Flatten(frame.im.px, Len(frame.im.shape))
          N   == Len(src)
      IN  /\ Len(out) = N
          /\ \E t \in 1..N :
               LET M == src[t]
               IN  /\ \A k \in 1..N : src[k].n * M.d <= M.n * src[k].d
                   /\ M.n <= 255 * M.d =>
                        /\ out = src
                        /\ frame.im.dtype =
                             IF arg.im.dtype = "bool" THEN "uint8" ELSE arg.im.dtype
                   /\ M.n > 255 * M.d =>
                        /\ \A k \in 1..N :
                             /\ out[k].d > 0
                             /\ out[k].n * M.n * src[k].d = src[k].n * M.d * out[k].d
                             /\ out[k].n <= out[k].d
                        /\ \E k \in 1..N : out[k] = One

\* A 3-channel image with maximum 256 was normalized and the pixel value
\* 128 of its second channel became 1/2.
C10_Witness ==
    /\ ImshowCalled
    /\ pc = "normalized"
    /\ arg.im.shape = <<2, 1, 3>>
    /\ arg.im.px[1][1] = <<Q(256, 1), Q(128, 1), Q(0, 1)>>
    /\ frame.im.px[1][1] = <<Q(1, 1), Q(1, 2), Q(0, 1)>>

\* C13: no step of a call to imshow changes what the caller passed: the
\* image array and the other arguments keep their values, and so does the
\* caller's colour mapper object (its low and its high), which a plot
\* returned by an earlier call with the same object still refers to.
C13_ArgumentsUnchanged ==
    [][fn = "imshow" => (arg' = arg /\ mapper' = mapper)]_vars

(***************************************************************************)
(* _display_clicks: the Tap callback of a plot made with display_clicks    *)
(*                                                                         *)
(* The text of the Div is a string; it is kept as the sequence of its      *)
(* pieces, a piece being either the newline character or the markup of one *)
(* span, which holds no newline.  browser.cb_obj is the position the next  *)
(* Tap event reports, browser.taps and browser.moves count the events.     *)
(***************************************************************************)
NL == [nl |-> TRUE]

\* Number(v).toFixed(4): the decimal numeral with four places nearest to v,
\* as its sign, whole part and four fraction digits.
ToFixed4(v) ==
    LET scaled == (2 * Abs(v.n) * 10000 + v.d) \div (2 * v.d)
    IN  [neg |-> v.n < 0 /\ scaled > 0,
         whole |-> scaled \div 10000,
         frac |-> scaled % 10000]

\* args: one numeral for each attribute of the event, in the order of attrs.
EventArgs(cb_obj, attrs) == [i \in 1..Len(attrs) |-> ToFixed4(cb_obj[attrs[i]])]

\* line: the span of the joined numerals followed by a newline.
ClickLine(cb_obj, attrs) == <<[span |-> EventArgs(cb_obj, attrs)], NL>>

\* String.split("\n"): the pieces between the newlines, empty ones included.
\* The text is split by halves to keep the evaluation shallow: the last piece
\* of the first half and the first piece of the second are one piece.
RECURSIVE SplitNL(_)
SplitNL(text) ==
    IF text = <<>> THEN << <<>> >>
    ELSE IF Len(text) = 1
         THEN IF text[1] = NL THEN << <<>>, <<>> >> ELSE <<text>>
    ELSE LET h == Len(text) \div 2
             a == SplitNL(SubSeq(text, 1, h))
             b == SplitNL(SubSeq(text, h + 1, Len(text)))
         IN  SubSeq(a, 1, Len(a) - 1) \o <<a[Len(a)] \o b[1]>> \o Tail(b)

\* Array.join("\n"): the elements with a newline between neighbours (the
\* array is joined by halves to keep the evaluation shallow).
RECURSIVE JoinNL(_)
JoinNL(lines) ==
    IF lines = <<>> THEN <<>>
    ELSE IF Len(lines) = 1 THEN lines[1]
    ELSE LET h == Len(lines) \div 2
         IN  JoinNL(SubSeq(lines, 1, h)) \o <<NL>>
               \o JoinNL(SubSeq(lines, h + 1, Len(lines)))

\* The number of lines above which the callback drops one.
LogCap == 35

\* if ( lines.length > 35 ) { lines.pop(); }
PopOverCap(lines) ==
    IF Len(lines) > LogCap THEN SubSeq(lines, 1, Len(lines) - 1) ELSE lines

\* if ( lines.length > 35 ) { lines.shift(); }
ShiftOverCap(lines) == IF Len(lines) > LogCap THEN Tail(lines) ELSE lines

\* The body of the callback: the new text of the Div.
display_clicks(div_text, cb_obj, attrs) ==
    LET line  == ClickLine(cb_obj, attrs)
        text  == div_text \o line
        lines == SplitNL(text)
    IN  JoinNL(ShiftOverCap(lines))

\* attributes=["x", "y"], as imshow passes them.
ClickAttributes == <<"x", "y">>

MaxClicks == 37
MaxMoves == 1

\* Positions a Tap event can report, in data coordinates.
ClickPositions == {[x |-> Q(1, 3), y |-> Q(5, 2)], [x |-> Q(2, 3), y |-> Q(-1, 8)]}

\* imshow(..., display_clicks=True) has returned its layout: the Div is new
\* (bokeh's Div starts with the text "") and the callback listens for Tap.
InitClicks ==
    /\ fn = "_display_clicks"
    /\ arg = [attributes |-> ClickAttributes]
    /\ pc = "listening"
    /\ frame = NoValue
    /\ ret = NoValue
    /\ mapper = NoMapper
    /\ platform = DefaultPlatform
    /\ browser \in {[div_text |-> <<>>, cb_obj |-> p, taps |-> 0, moves |-> 0] :
                      p \in ClickPositions}

\* A click on the plot: the browser runs the callback with the event.
Tap ==
    /\ fn = "_display_clicks"
    /\ browser.taps < MaxClicks
    /\ browser' = [browser EXCEPT
                     !.div_text = display_clicks(browser.div_text, browser.cb_obj,
                                                 arg.attributes),
                     !.taps = browser.taps + 1]
    /\ UNCHANGED <<fn, arg, pc, frame, ret, mapper, platform>>

\* The user moves the pointer: the next Tap reports another position.
MovePointer ==
    /\ fn = "_display_clicks"
    /\ browser.moves < MaxMoves
    /\ \E p \in ClickPositions \ {browser.cb_obj} :
         browser' = [browser EXCEPT !.cb_obj = p, !.moves = browser.moves + 1]
    /\ UNCHANGED <<fn, arg, pc, frame, ret, mapper, platform>>

NextClicks == Tap \/ MovePointer

SpecClicks == InitClicks /\ [][NextClicks]_vars

\* The lines of the log: the pieces of the text between newlines, without the
\* empty piece that follows the final newline.
LogLines(div_text) ==
    LET lines == SplitNL(div_text)
    IN  IF lines[Len(lines)] = <<>> THEN SubSeq(lines, 1, Len(lines) - 1) ELSE lines

\* The log line of a click at position p.
Entry(p) == <<[span |-> <<ToFixed4(p.x), ToFixed4(p.y)>>]>>

\* C11: starting from an empty panel, every click leaves a log of at most 35
\* lines (counted as the callback counts them) whose last line is the entry
\* of that click; the lines before it are the earlier log in its order,
\* whole or without its first (oldest) line only.
C11_ClickLog ==
    [][browser'.taps = browser.taps + 1 =>
         LET old == LogLines(browser.div_text)
             new == LogLines(browser'.div_text)
             own == Entry(browser.cb_obj)
         IN  /\ Len(SplitNL(browser'.div_text)) <= 35
             /\ Len(new) <= 35
             /\ new # <<>>
             /\ new[Len(new)] = own
             /\ \/ new = Append(old, own)
                \/ old # <<>> /\ new = Append(Tail(old), own)]_vars

\* The cap was exceeded and the oldest entry dropped: 36 clicks were made,
\* the pointer moved after the first one, and the log no longer starts with
\* the entry of the first click.
C11_Witness ==
    /\ fn = "_display_clicks"
    /\ browser.taps = 36
    /\ browser.moves = 1
    /\ LET log == LogLines(browser.div_text)
       IN  /\ Len(log) = 34
           /\ log[1] # log[Len(log)]

====
